---- MODULE Spec2Model ----
(***************************************************************************)
(* rCalc: evaluate(expression) = tokenize -> shunting_yard -> calculate.   *)
(* One behaviour is one call of evaluate.  Every iteration of the three    *)
(* loops of src/src/parser.rs is one action; a failed unwrap() is the      *)
(* abort of the call (pc = "panic").                                       *)
(*                                                                         *)
(* Texts are sequences of one-character strings.  f64 values are modelled  *)
(* exactly: signed zeros, infinities, NaN and the rationals n/d with       *)
(* |n|, d <= Cap; a result outside that range is kept as the unevaluated   *)
(* application <<"app", op, l, r>> (rounding is not modelled).             *)
(***************************************************************************)
EXTENDS Integers, Sequences, FiniteSets, TLC

\* ---------------------------------------------------------------- bounds
MaxLen == 5        \* longest text over Alphabet and over SignAlphabet
MaxDigit == 4      \* one-digit operands are 0 .. MaxDigit
MaxDepth == 3      \* deepest nesting of parenthesised groups
Cap == 30000       \* largest numerator and denominator computed exactly

\* ------------------------------------------------------------ characters
Digits == {"0", "1", "2", "3", "4", "5", "6", "7", "8", "9"}
Letters == {"a", "b", "c"}
OperatorChars == {"^", "*", "/", "-", "+"}
ParenChars == {"(", ")"}

is_alphabetic(c) == c \in Letters
is_numeric(c) == c \in Digits

DigitValue(c) ==
  CASE c = "0" -> 0 [] c = "1" -> 1 [] c = "2" -> 2 [] c = "3" -> 3
    [] c = "4" -> 4 [] c = "5" -> 5 [] c = "6" -> 6 [] c = "7" -> 7
    [] c = "8" -> 8 [] c = "9" -> 9

\* ---------------------------------------------------------------- values
Abs(n) == IF n < 0 THEN -n ELSE n

RECURSIVE Gcd(_, _)
Gcd(a, b) == IF b = 0 THEN a ELSE Gcd(b, a % b)

RECURSIVE Pow10(_)
Pow10(k) == IF k = 0 THEN 1 ELSE 10 * Pow10(k - 1)

NaN == [k |-> "nan", s |-> 1, n |-> 0, d |-> 1]
Zero(s) == [k |-> "zero", s |-> s, n |-> 0, d |-> 1]
Inf(s) == [k |-> "inf", s |-> s, n |-> 0, d |-> 1]
Fin(n, d) == [k |-> "fin", s |-> IF n < 0 THEN -1 ELSE 1, n |-> n, d |-> d]
Over == [k |-> "over", s |-> 1, n |-> 0, d |-> 1]
App(op, l, r) == [k |-> "app", op |-> op, l |-> l, r |-> r]
Lit(content) == [k |-> "lit", text |-> content]

IsExact(x) == x.k \in {"nan", "zero", "inf", "fin"}

\* the f64 nearest to n/d (n # 0, d > 0), when it is in the modelled range
Ratio(n, d) ==
  LET g == Gcd(Abs(n), d)
      nn == n \div g
      dd == d \div g
  IN IF Abs(nn) > Cap \/ dd > Cap THEN Over ELSE Fin(nn, dd)

Neg(x) ==
  CASE x.k = "nan" -> NaN
    [] x.k = "zero" -> Zero(-x.s)
    [] x.k = "inf" -> Inf(-x.s)
    [] x.k = "fin" -> Fin(-x.n, x.d)

\* l + r
F64Add(l, r) ==
  CASE l.k = "inf" /\ r.k = "inf" -> IF l.s = r.s THEN l ELSE NaN
    [] l.k = "inf" /\ r.k # "inf" -> l
    [] l.k # "inf" /\ r.k = "inf" -> r
    [] l.k = "zero" /\ r.k = "zero" -> IF l.s = -1 /\ r.s = -1 THEN Zero(-1) ELSE Zero(1)
    [] l.k = "zero" /\ r.k = "fin" -> r
    [] l.k = "fin" /\ r.k = "zero" -> l
    [] l.k = "fin" /\ r.k = "fin" ->
         LET n == l.n * r.d + r.n * l.d
         IN IF n = 0 THEN Zero(1) ELSE Ratio(n, l.d * r.d)

\* l * r
F64Mul(l, r) ==
  CASE (l.k = "inf" /\ r.k = "zero") \/ (l.k = "zero" /\ r.k = "inf") -> NaN
    [] l.k = "inf" \/ r.k = "inf" -> Inf(l.s * r.s)
    [] l.k = "zero" \/ r.k = "zero" -> Zero(l.s * r.s)
    [] OTHER -> Ratio(l.n * r.n, l.d * r.d)

\* l / r
F64Div(l, r) ==
  CASE (l.k = "inf" /\ r.k = "inf") \/ (l.k = "zero" /\ r.k = "zero") -> NaN
    [] l.k = "inf" \/ r.k = "zero" -> Inf(l.s * r.s)
    [] l.k = "zero" \/ r.k = "inf" -> Zero(l.s * r.s)
    [] OTHER -> Ratio(l.s * r.s * Abs(l.n) * r.d, l.d * Abs(r.n))

\* acc * l * ... * l (e factors l), Over as soon as the range is left
RECURSIVE IntPow(_, _, _)
IntPow(acc, l, e) ==
  IF e = 0 THEN acc
  ELSE LET p == F64Mul(acc, l)
       IN IF p.k = "over" THEN Over ELSE IntPow(p, l, e - 1)

IsOddInteger(r) == r.k = "fin" /\ r.d = 1 /\ r.n % 2 = 1

\* |l| compared with 1: -1, 0 or 1
MagnitudeVsOne(l) ==
  CASE l.k = "zero" -> -1
    [] l.k = "inf" -> 1
    [] l.k = "fin" -> IF Abs(l.n) < l.d THEN -1 ELSE IF Abs(l.n) = l.d THEN 0 ELSE 1

\* f64::powf(l, r) for exact l, r (the special cases of C pow)
F64Powf(l, r) ==
  CASE r.k = "zero" -> Fin(1, 1)
    [] r.k # "zero" /\ l = Fin(1, 1) -> Fin(1, 1)
    [] r.k # "zero" /\ l # Fin(1, 1) /\ (l.k = "nan" \/ r.k = "nan") -> NaN
    [] r.k = "inf" /\ l.k # "nan" /\ l # Fin(1, 1) ->
         LET m == MagnitudeVsOne(l)
         IN IF m = 0 THEN Fin(1, 1)
            ELSE IF (m = 1) = (r.s = 1) THEN Inf(1) ELSE Zero(1)
    [] r.k = "fin" /\ l.k = "inf" ->
         LET s == IF l.s = -1 /\ IsOddInteger(r) THEN -1 ELSE 1
         IN IF r.s = 1 THEN Inf(s) ELSE Zero(s)
    [] r.k = "fin" /\ l.k = "zero" ->
         LET s == IF l.s = -1 /\ IsOddInteger(r) THEN -1 ELSE 1
         IN IF r.s = 1 THEN Zero(s) ELSE Inf(s)
    [] r.k = "fin" /\ l.k = "fin" /\ l # Fin(1, 1) ->
         IF r.d # 1
         THEN IF l.s = -1 THEN NaN ELSE Over
         ELSE IF l = Fin(-1, 1)
              THEN (IF IsOddInteger(r) THEN Fin(-1, 1) ELSE Fin(1, 1))
              ELSE LET p == IntPow(Fin(1, 1), l, Abs(r.n))
                   IN IF p.k = "over" THEN Over
                      ELSE IF r.s = 1 THEN p ELSE F64Div(Fin(1, 1), p)

\* the arithmetic of calculate's match, parser.rs:215-221
Arith(type, l, r) ==
  IF ~IsExact(l) \/ ~IsExact(r)
  THEN App(type, l, r)
  ELSE LET x == CASE type = "Power" -> F64Powf(l, r)
                  [] type # "Power" /\ (l.k = "nan" \/ r.k = "nan") -> NaN
                  [] type = "Divide" /\ l.k # "nan" /\ r.k # "nan" -> F64Div(l, r)
                  [] type = "Multiply" /\ l.k # "nan" /\ r.k # "nan" -> F64Mul(l, r)
                  [] type = "Minus" /\ l.k # "nan" /\ r.k # "nan" -> F64Add(l, Neg(r))
                  [] type = "Plus" /\ l.k # "nan" /\ r.k # "nan" -> F64Add(l, r)
       IN IF x.k = "over" THEN App(type, l, r) ELSE x

\* ---------------------------------------------------------------- tokens
\* Result<_, &'static str>: Ok(x), or Err with the message and the text the
\* message ends with (<<>> for a fixed message); None before a call returns
Ok(x) == <<"Ok", x>>
Err(message, detail) == <<"Err", message, detail>>
None == <<"None">>
IsOk(res) == res[1] = "Ok"
IsErr(res) == res[1] = "Err"

\* Token that takes the precedence and the associativity of Plus for Power
Token_power_as_plus(type, value, precedence, associativity) ==
  [type |-> type, value |-> value,
   precedence |-> IF type = "Power" THEN 2 ELSE precedence,
   associativity |-> IF type = "Power" THEN "Left" ELSE associativity]

Token(type, value, precedence, associativity) ==
  [type |-> type, value |-> value, precedence |-> precedence,
   associativity |-> associativity]

RECURSIVE DigitsValue(_)
DigitsValue(ds) ==
  IF ds = <<>> THEN 0
  ELSE 10 * DigitsValue(SubSeq(ds, 1, Len(ds) - 1)) + DigitValue(ds[Len(ds)])

\* length of the longest prefix of cs made of digits
RECURSIVE DigitRun(_)
DigitRun(cs) ==
  IF cs # <<>> /\ cs[1] \in Digits THEN 1 + DigitRun(Tail(cs)) ELSE 0

\* the regex ^-?\d+\.?\d*$ of Token::new
MatchesNumber(content) ==
  LET body == IF content # <<>> /\ content[1] = "-" THEN Tail(content) ELSE content
      ip == DigitRun(body)
      rest == SubSeq(body, ip + 1, Len(body))
      frac == IF rest # <<>> /\ rest[1] = "." THEN Tail(rest) ELSE rest
  IN ip >= 1 /\ DigitRun(frac) = Len(frac)

\* str::parse::<f64>() of a lexeme that matches the number regex
ParseF64(content) ==
  LET sign == IF content[1] = "-" THEN -1 ELSE 1
      body == IF content[1] = "-" THEN Tail(content) ELSE content
      ip == DigitRun(body)
      rest == SubSeq(body, ip + 1, Len(body))
      frac == IF rest # <<>> /\ rest[1] = "." THEN Tail(rest) ELSE rest
      n == DigitsValue(SubSeq(body, 1, ip) \o frac)
  IN IF ip + Len(frac) > 4 THEN Lit(content)
     ELSE IF n = 0 THEN Zero(sign)
     ELSE Ratio(sign * n, Pow10(Len(frac)))

\* Token::new
Token_new(content) ==
  IF content = <<"+">> THEN Ok(Token("Plus", Zero(1), 2, "Left"))
  ELSE IF content = <<"-">> THEN Ok(Token("Minus", Zero(1), 2, "Left"))
  ELSE IF content = <<"*">> THEN Ok(Token("Multiply", Zero(1), 3, "Left"))
  ELSE IF content = <<"/">> THEN Ok(Token("Divide", Zero(1), 3, "Left"))
  ELSE IF content = <<"^">> THEN Ok(Token("Power", Zero(1), 4, "Right"))
  ELSE IF MatchesNumber(content)
       THEN Ok(Token("Number", ParseF64(content), 0, "Right"))
  ELSE IF content = <<"(">>
       THEN Ok(Token("OpeningParenthesis", Zero(1), 0, "Right"))
  ELSE IF content = <<")">>
       THEN Ok(Token("ClosingParaenthesis", Zero(1), 0, "Right"))
  ELSE Err("Error creating new token with content: ", content)

is_operator(t) == t.type \in {"Divide", "Multiply", "Plus", "Minus", "Power"}

\* ----------------------------------------------------------------- lexer
\* The branch tokenize takes for character c (not alphabetic) in a state:
\* flush = the buffer is made a token first, keep = c goes to the buffer.
\* Branch that never makes the buffer a token: the lexeme goes on
Branch_without_flush(flush, keep, st) ==
  [flush |-> FALSE, keep |-> keep, state |-> st]

Branch(flush, keep, st) == [flush |-> flush, keep |-> keep, state |-> st]

\* lexer_branch where a '-' after an operator does not start a number
lexer_branch_binary_minus(st, c) ==
  IF st = "Number" THEN
       IF is_numeric(c) \/ c = "." THEN Branch(FALSE, TRUE, "Number")
       ELSE IF c \in OperatorChars THEN Branch(TRUE, TRUE, "OPERATOR")
       ELSE IF c \in ParenChars THEN Branch(TRUE, TRUE, "PARENTHESIS")
       ELSE Branch(FALSE, FALSE, st)
  ELSE IF st = "OPERATOR" THEN
       IF is_numeric(c) THEN Branch(TRUE, TRUE, "Number")
       ELSE IF c \in ParenChars THEN Branch(TRUE, TRUE, "PARENTHESIS")
       ELSE Branch(FALSE, FALSE, st)
  ELSE IF st = "PARENTHESIS" THEN
       IF c = "-" \/ is_numeric(c) THEN Branch(TRUE, TRUE, "Number")
       ELSE IF c \in OperatorChars THEN Branch(TRUE, TRUE, "OPERATOR")
       ELSE IF c \in ParenChars THEN Branch(TRUE, TRUE, "PARENTHESIS")
       ELSE Branch(FALSE, FALSE, st)
  ELSE IF is_numeric(c) \/ c = "-" THEN Branch(FALSE, TRUE, "Number")
       ELSE IF c = "(" THEN Branch(FALSE, TRUE, "PARENTHESIS")
       ELSE Branch(FALSE, FALSE, st)

\* lexer_branch where a character that matches no branch goes to the buffer
lexer_branch_keeps_unmatched(st, c) ==
  IF st = "Number" THEN
       IF is_numeric(c) \/ c = "." THEN Branch(FALSE, TRUE, "Number")
       ELSE IF c \in OperatorChars THEN Branch(TRUE, TRUE, "OPERATOR")
       ELSE IF c \in ParenChars THEN Branch(TRUE, TRUE, "PARENTHESIS")
       ELSE Branch(FALSE, TRUE, st)
  ELSE IF st = "OPERATOR" THEN
       IF c = "-" \/ is_numeric(c) THEN Branch(TRUE, TRUE, "Number")
       ELSE IF c \in ParenChars THEN Branch(TRUE, TRUE, "PARENTHESIS")
       ELSE Branch(FALSE, TRUE, st)
  ELSE IF st = "PARENTHESIS" THEN
       IF c = "-" \/ is_numeric(c) THEN Branch(TRUE, TRUE, "Number")
       ELSE IF c \in OperatorChars THEN Branch(TRUE, TRUE, "OPERATOR")
       ELSE IF c \in ParenChars THEN Branch(TRUE, TRUE, "PARENTHESIS")
       ELSE Branch(FALSE, TRUE, st)
  ELSE IF is_numeric(c) \/ c = "-" THEN Branch(FALSE, TRUE, "Number")
       ELSE IF c = "(" THEN Branch(FALSE, TRUE, "PARENTHESIS")
       ELSE Branch(FALSE, TRUE, st)

\* the branches of the loop of tokenize, parser.rs:43-95
lexer_branch(st, c) ==
  IF st = "Number" THEN
       IF is_numeric(c) \/ c = "." THEN Branch(FALSE, TRUE, "Number")
       ELSE IF c \in OperatorChars THEN Branch(TRUE, TRUE, "OPERATOR")
       ELSE IF c \in ParenChars THEN Branch(TRUE, TRUE, "PARENTHESIS")
       ELSE Branch(FALSE, FALSE, st)
  ELSE IF st = "OPERATOR" THEN
       IF c = "-" \/ is_numeric(c) THEN Branch(TRUE, TRUE, "Number")
       ELSE IF c \in ParenChars THEN Branch(TRUE, TRUE, "PARENTHESIS")
       ELSE Branch(FALSE, FALSE, st)
  ELSE IF st = "PARENTHESIS" THEN
       IF c = "-" \/ is_numeric(c) THEN Branch(TRUE, TRUE, "Number")
       ELSE IF c \in OperatorChars THEN Branch(TRUE, TRUE, "OPERATOR")
       ELSE IF c \in ParenChars THEN Branch(TRUE, TRUE, "PARENTHESIS")
       ELSE Branch(FALSE, FALSE, st)
  ELSE \* NONE
       IF is_numeric(c) \/ c = "-" THEN Branch(FALSE, TRUE, "Number")
       ELSE IF c = "(" THEN Branch(FALSE, TRUE, "PARENTHESIS")
       ELSE Branch(FALSE, FALSE, st)

\* ------------------------------------------------------------- converter
Top(st) == st[Len(st)]
Pop(st) == SubSeq(st, 1, Len(st) - 1)

\* pops_before with the precedence test turned round
pops_before_lower(top, t) ==
  \/ top.precedence < t.precedence
  \/ (top.precedence = t.precedence /\ top.associativity = "Left")

\* pops_before for a stack that is never popped by an operator
pops_before_never(top, t) == FALSE

\* pops_before without the associativity test
pops_before_no_associativity(top, t) ==
  top.precedence >= t.precedence

\* the condition of the while loop of the operator branch, parser.rs:256-259
pops_before(top, t) ==
  \/ top.precedence > t.precedence
  \/ (top.precedence = t.precedence /\ top.associativity = "Left")

\* pop_operators that drops the operator it pops
pop_operators_dropping(st, out, t) ==
  IF st # <<>> /\ pops_before(Top(st), t)
  THEN <<Pop(st), out>>
  ELSE <<st, out>>

\* pop_operators that pops one operator at most
pop_operators_once(st, out, t) ==
  IF st # <<>> /\ pops_before(Top(st), t)
  THEN <<Pop(st), Append(out, Top(st))>>
  ELSE <<st, out>>

\* the while loop of the operator branch: <<stack, reverse_notation>> after it
RECURSIVE pop_operators(_, _, _)
pop_operators(st, out, t) ==
  IF st # <<>> /\ pops_before(Top(st), t)
  THEN pop_operators(Pop(st), Append(out, Top(st)), t)
  ELSE <<st, out>>

\* pop_to_opening without its loop
pop_to_opening_no_loop(st, out) == <<st, out>>

\* the while loop of the closing-parenthesis branch, parser.rs:245-248
RECURSIVE pop_to_opening(_, _)
pop_to_opening(st, out) ==
  IF st # <<>> /\ Top(st).type # "OpeningParenthesis"
  THEN pop_to_opening(Pop(st), Append(out, Top(st)))
  ELSE <<st, out>>

\* the final while loop, parser.rs:266-268
RECURSIVE drain(_, _)
drain(st, out) ==
  IF st # <<>> THEN drain(Pop(st), Append(out, Top(st))) ELSE out

\* ------------------------------------------------------------- evaluator
\* calculate_step that takes the value popped first as the left operand
calculate_step_swapped(numbers, t) ==
  LET n == Len(numbers)
  IN IF t.type = "Number" THEN Append(numbers, t.value)
     ELSE IF is_operator(t)
     THEN IF n >= 2
          THEN Append(SubSeq(numbers, 1, n - 2),
                      Arith(t.type, numbers[n], numbers[n - 1]))
          ELSE <<>>
     ELSE numbers

\* the body of the loop of calculate, parser.rs:208-225: both operands are
\* popped before they are tested, so an operator that finds fewer than two
\* values empties the stack and pushes nothing
calculate_step(numbers, t) ==
  LET n == Len(numbers)
  IN IF t.type = "Number" THEN Append(numbers, t.value)
     ELSE IF is_operator(t)
     THEN IF n >= 2
          THEN Append(SubSeq(numbers, 1, n - 2),
                      Arith(t.type, numbers[n - 1], numbers[n]))
          ELSE <<>>
     ELSE numbers

\* ----------------------------------------------------------------- state
VARIABLES
  expression,           \* the argument of evaluate
  pc,                   \* "tokenize", "shunting_yard", "calculate", "done", "panic"
  pos,                  \* characters of expression consumed by tokenize
  state,                \* tokenize: ParserState
  buffer,               \* tokenize: the lexeme being collected
  v,                    \* tokenize: the tokens produced
  ti,                   \* shunting_yard: tokens of v consumed
  reverse_notation,     \* shunting_yard: the output
  stack,                \* shunting_yard: the operator stack
  ci,                   \* calculate: tokens of reverse_notation consumed
  processing_numbers,   \* calculate: the numeric stack
  result,               \* what evaluate returned, None before it returns
  returned              \* <<expression, result>> of the calls made before this one

vars == <<expression, pc, pos, state, buffer, v, ti, reverse_notation, stack,
          ci, processing_numbers, result, returned>>

\* ---------------------------------------------------------------- inputs
\* the texts of n characters of an alphabet
RECURSIVE Texts(_, _)
Texts(alphabet, n) ==
  IF n = 0 THEN {<<>>}
  ELSE {Append(t, c) : t \in Texts(alphabet, n - 1), c \in alphabet}

Alphabet == {"1", ".", "-", "+", "*", "(", ")", "a", " "}

\* number literals used as operands
DigitChars == <<"0", "1", "2", "3", "4", "5", "6", "7", "8", "9">>
Operands ==
  {<<DigitChars[d + 1]>> : d \in 0 .. MaxDigit}
    \cup {<<"1", "2">>, <<"1", ".", "5">>, <<"2", ".">>}

\* a op1 b op2 c
ChainTexts ==
  {a \o <<o1>> \o b \o <<o2>> \o c :
     a \in Operands, b \in Operands, c \in Operands,
     o1 \in OperatorChars, o2 \in OperatorChars}

\* a op1 (b op2 c)
GroupTexts ==
  {a \o <<o1, "(">> \o b \o <<o2>> \o c \o <<")">> :
     a \in Operands, b \in Operands, c \in Operands,
     o1 \in OperatorChars, o2 \in OperatorChars}

\* (a op b), (a op (b op c)), ... : k groups nested in each other
NestOperands == {<<"2">>, <<"3">>}
RECURSIVE Nested(_)
Nested(k) ==
  {<<"(">> \o a \o <<o>> \o x \o <<")">> :
     a \in NestOperands, o \in OperatorChars,
     x \in IF k = 1 THEN NestOperands ELSE Nested(k - 1)}

\* the same without the outermost parentheses
Bare(k) == {SubSeq(x, 2, Len(x) - 1) : x \in Nested(k)}

\* [-]a op [-]b with at least one sign, also in parentheses
Signs == {<<<<>>, <<"-">>>>, <<<<"-">>, <<>>>>, <<<<"-">>, <<"-">>>>}
SignedTexts ==
  {s[1] \o a \o <<o>> \o s[2] \o b :
     s \in Signs, a \in Operands, b \in Operands, o \in OperatorChars}
UnaryTexts ==
  SignedTexts \cup {<<"(">> \o x \o <<")">> : x \in SignedTexts}

\* divisions by a zero literal, alone, in a chain and in parentheses, and
\* divisions by a group b - c
ZeroLiterals == {<<"0">>, <<"0", ".", "0">>, <<"-", "0">>}
DivisionTexts ==
  {a \o <<"/">> \o z : a \in Operands, z \in ZeroLiterals}
    \cup {a \o <<"/">> \o z \o <<o>> \o c :
            a \in Operands, z \in ZeroLiterals, o \in OperatorChars, c \in Operands}
    \cup {<<"(">> \o a \o <<"/">> \o z \o <<")", o>> \o c :
            a \in Operands, z \in ZeroLiterals, o \in OperatorChars, c \in Operands}
    \cup {c \o <<o, "(">> \o a \o <<"/">> \o z \o <<")">> :
            a \in Operands, z \in ZeroLiterals, o \in OperatorChars, c \in Operands}
    \cup {a \o <<"/", "(">> \o b \o <<"-">> \o c \o <<")">> :
            a \in Operands, b \in Operands, c \in Operands}

\* a op1 b op2 c op3 d, a op1 (b op2 c op3 d) and (a op1 b op2 c) op3 d
LongChains ==
  {a \o <<o1>> \o b \o <<o2>> \o c :
     a \in NestOperands, b \in NestOperands, c \in NestOperands,
     o1 \in OperatorChars, o2 \in OperatorChars}
ConverterTexts ==
  {x \o <<o>> \o d : x \in LongChains, o \in OperatorChars, d \in NestOperands}
    \cup {a \o <<o, "(">> \o x \o <<")">> :
            x \in LongChains, o \in OperatorChars, a \in NestOperands}
    \cup {<<"(">> \o x \o <<")", o>> \o d :
            x \in LongChains, o \in OperatorChars, d \in NestOperands}

\* a op b
BinaryOperands == Operands \cup {<<"5">>, <<"6">>}
BinaryTexts ==
  {a \o <<o>> \o b : a \in BinaryOperands, b \in BinaryOperands, o \in OperatorChars}

\* (a op1 b) op2 c
ClosedTexts ==
  {<<"(">> \o a \o <<o1>> \o b \o <<")", o2>> \o c :
     a \in Operands, b \in Operands, c \in Operands,
     o1 \in OperatorChars, o2 \in OperatorChars}

\* texts for calls made one after the other: they return numbers and every
\* kind of error, and leave a lexeme, tokens, operators or values behind
CallTexts ==
  {<<>>, <<"1">>, <<"1", "+">>, <<"1", "+", "1">>, <<"(", "1">>, <<"1", ")">>,
   <<"a">>, <<"-", "1">>, <<"(", "1", ")", "-", "1">>, <<"1", "(", "1", ")">>}

\* all texts of signs, digits, dots, operators and parentheses
SignAlphabet == {"-", "2", ".", "+", "(", ")"}

\* the state at the entry of evaluate(e)
Start(e) ==
  /\ expression = e
  /\ pc = "tokenize"
  /\ pos = 0
  /\ state = "NONE"
  /\ buffer = <<>>
  /\ v = <<>>
  /\ ti = 0
  /\ reverse_notation = <<>>
  /\ stack = <<>>
  /\ ci = 0
  /\ processing_numbers = <<>>
  /\ result = None
  /\ returned = {}

Init == \E n \in 0 .. MaxLen : \E e \in Texts(Alphabet, n) : Start(e)

\* --------------------------------------------------------------- actions
\* one iteration of the loop of tokenize, parser.rs:39-96
tokenize_char ==
  /\ pc = "tokenize"
  /\ pos < Len(expression)
  /\ LET c == expression[pos + 1]
         b == lexer_branch(state, c)
         made == Token_new(buffer)
     IN IF is_alphabetic(c)
        THEN /\ result' = Err("Invalid character: ", <<c>>)
             /\ pc' = "done"
             /\ UNCHANGED <<state, buffer, v>>
        ELSE IF b.flush /\ IsErr(made)
        THEN /\ pc' = "panic"
             /\ UNCHANGED <<state, buffer, v, result>>
        ELSE /\ v' = IF b.flush THEN Append(v, made[2]) ELSE v
             /\ buffer' = IF b.flush THEN <<c>>
                          ELSE IF b.keep THEN Append(buffer, c) ELSE buffer
             /\ state' = b.state
             /\ UNCHANGED <<pc, result>>
  /\ pos' = pos + 1
  /\ UNCHANGED <<expression, ti, reverse_notation, stack, ci, processing_numbers,
                 returned>>

\* the end of tokenize, parser.rs:97-103, and evaluate's match on its result
tokenize_end ==
  /\ pc = "tokenize"
  /\ pos = Len(expression)
  /\ LET made == Token_new(buffer)
     IN IF buffer # <<>> /\ state \in {"Number", "PARENTHESIS"}
        THEN IF IsErr(made)
             THEN /\ pc' = "panic"
                  /\ UNCHANGED <<v, result>>
             ELSE /\ v' = Append(v, made[2])
                  /\ pc' = "shunting_yard"
                  /\ UNCHANGED result
        ELSE /\ result' = Err("Invalid end of expression", <<>>)
             /\ pc' = "done"
             /\ UNCHANGED v
  /\ UNCHANGED <<expression, pos, state, buffer, ti, reverse_notation, stack,
                 ci, processing_numbers, returned>>

\* shunting_yard_token that passes over a ClosingParaenthesis without an
\* OpeningParenthesis on the stack
shunting_yard_token_lenient ==
  /\ pc = "shunting_yard"
  /\ ti < Len(v)
  /\ LET t == v[ti + 1]
         closed == pop_to_opening(stack, reverse_notation)
         popped == pop_operators(stack, reverse_notation, t)
     IN IF t.type = "Number"
        THEN /\ reverse_notation' = Append(reverse_notation, t)
             /\ UNCHANGED <<stack, pc, result>>
        ELSE IF t.type = "OpeningParenthesis"
        THEN /\ stack' = Append(stack, t)
             /\ UNCHANGED <<reverse_notation, pc, result>>
        ELSE IF t.type = "ClosingParaenthesis"
        THEN /\ stack' = IF closed[1] # <<>> THEN Pop(closed[1]) ELSE closed[1]
             /\ reverse_notation' = closed[2]
             /\ UNCHANGED <<pc, result>>
        ELSE IF is_operator(t)
        THEN /\ stack' = Append(popped[1], t)
             /\ reverse_notation' = popped[2]
             /\ UNCHANGED <<pc, result>>
        ELSE UNCHANGED <<stack, reverse_notation, pc, result>>
  /\ ti' = ti + 1
  /\ UNCHANGED <<expression, pos, state, buffer, v, ci, processing_numbers,
                 returned>>

\* one iteration of the loop of shunting_yard, parser.rs:239-265
shunting_yard_token ==
  /\ pc = "shunting_yard"
  /\ ti < Len(v)
  /\ LET t == v[ti + 1]
         closed == pop_to_opening(stack, reverse_notation)
         popped == pop_operators(stack, reverse_notation, t)
     IN IF t.type = "Number"
        THEN /\ reverse_notation' = Append(reverse_notation, t)
             /\ UNCHANGED <<stack, pc, result>>
        ELSE IF t.type = "OpeningParenthesis"
        THEN /\ stack' = Append(stack, t)
             /\ UNCHANGED <<reverse_notation, pc, result>>
        ELSE IF t.type = "ClosingParaenthesis"
        THEN IF closed[1] # <<>> /\ Top(closed[1]).type = "OpeningParenthesis"
             THEN /\ stack' = Pop(closed[1])
                  /\ reverse_notation' = closed[2]
                  /\ UNCHANGED <<pc, result>>
             ELSE /\ stack' = closed[1]
                  /\ reverse_notation' = closed[2]
                  /\ result' = Err("Expected opening bracket", <<>>)
                  /\ pc' = "done"
        ELSE IF is_operator(t)
        THEN /\ stack' = Append(popped[1], t)
             /\ reverse_notation' = popped[2]
             /\ UNCHANGED <<pc, result>>
        ELSE UNCHANGED <<stack, reverse_notation, pc, result>>
  /\ ti' = ti + 1
  /\ UNCHANGED <<expression, pos, state, buffer, v, ci, processing_numbers,
                 returned>>

\* the end of shunting_yard, parser.rs:266-270, and evaluate's match
shunting_yard_end ==
  /\ pc = "shunting_yard"
  /\ ti = Len(v)
  /\ reverse_notation' = drain(stack, reverse_notation)
  /\ stack' = <<>>
  /\ pc' = "calculate"
  /\ UNCHANGED <<expression, pos, state, buffer, v, ti, ci, processing_numbers,
                 result, returned>>

\* one iteration of the loop of calculate, parser.rs:207-226
calculate_token ==
  /\ pc = "calculate"
  /\ ci < Len(reverse_notation)
  /\ processing_numbers' = calculate_step(processing_numbers,
                                           reverse_notation[ci + 1])
  /\ ci' = ci + 1
  /\ UNCHANGED <<expression, pc, pos, state, buffer, v, ti, reverse_notation,
                 stack, result, returned>>

\* calculate_end that returns the top of the numeric stack whenever there is one
calculate_end_returns_top ==
  /\ pc = "calculate"
  /\ ci = Len(reverse_notation)
  /\ result' = IF Len(processing_numbers) >= 1
               THEN Ok(processing_numbers[Len(processing_numbers)])
               ELSE Err("Error parsing expresion", <<>>)
  /\ pc' = "done"
  /\ UNCHANGED <<expression, pos, state, buffer, v, ti, reverse_notation, stack,
                 ci, processing_numbers, returned>>

\* the end of calculate, parser.rs:228-232: evaluate returns its result
calculate_end ==
  /\ pc = "calculate"
  /\ ci = Len(reverse_notation)
  /\ result' = IF Len(processing_numbers) = 1
               THEN Ok(processing_numbers[1])
               ELSE Err("Error parsing expresion", <<>>)
  /\ pc' = "done"
  /\ UNCHANGED <<expression, pos, state, buffer, v, ti, reverse_notation, stack,
                 ci, processing_numbers, returned>>

Next ==
  \/ tokenize_char
  \/ tokenize_end
  \/ shunting_yard_token
  \/ shunting_yard_end
  \/ calculate_token
  \/ calculate_end

Spec == Init /\ [][Next]_vars

InitChain == \E e \in ChainTexts : Start(e)
SpecChain == InitChain /\ [][Next]_vars

InitParen ==
  \E k \in 0 .. MaxDepth :
     \E e \in IF k = 0 THEN GroupTexts ELSE Nested(k) \cup Bare(k) : Start(e)
SpecParen == InitParen /\ [][Next]_vars

InitUnary ==
  \E n \in 0 .. MaxLen :
     \E e \in IF n = 0 THEN UnaryTexts ELSE Texts(SignAlphabet, n) : Start(e)
SpecUnary == InitUnary /\ [][Next]_vars

\* evaluate_again whose lexer keeps its state and its buffer between calls
evaluate_again_keeps_lexeme ==
  /\ pc = "done"
  /\ \E e \in CallTexts : expression' = e
  /\ returned' = returned \cup {<<expression, result>>}
  /\ pc' = "tokenize"
  /\ pos' = 0
  /\ v' = <<>>
  /\ ti' = 0
  /\ reverse_notation' = <<>>
  /\ stack' = <<>>
  /\ ci' = 0
  /\ processing_numbers' = <<>>
  /\ result' = None
  /\ UNCHANGED <<state, buffer>>

\* the next call of evaluate after one has returned (as the calls made one
\* after the other in parser.rs:579-583): tokenize, shunting_yard and calculate
\* create their locals anew, parser.rs:36-38, 236-237 and 206
evaluate_again ==
  /\ pc = "done"
  /\ \E e \in CallTexts : expression' = e
  /\ returned' = returned \cup {<<expression, result>>}
  /\ pc' = "tokenize"
  /\ pos' = 0
  /\ state' = "NONE"
  /\ buffer' = <<>>
  /\ v' = <<>>
  /\ ti' = 0
  /\ reverse_notation' = <<>>
  /\ stack' = <<>>
  /\ ci' = 0
  /\ processing_numbers' = <<>>
  /\ result' = None

NextCalls ==
  \/ Next
  \/ evaluate_again

InitCalls == \E e \in CallTexts : Start(e)
SpecCalls == InitCalls /\ [][NextCalls]_vars

InitConverter == \E e \in ConverterTexts : Start(e)
SpecConverter == InitConverter /\ [][Next]_vars

InitBinary == \E e \in BinaryTexts : Start(e)
SpecBinary == InitBinary /\ [][Next]_vars

InitClosed == \E e \in ClosedTexts : Start(e)
SpecClosed == InitClosed /\ [][Next]_vars

InitDivision == \E e \in DivisionTexts : Start(e)
SpecDivision == InitDivision /\ [][Next]_vars

\* ============================================================== claims

\* the type of the token of an operator character
TypeOf(o) ==
  CASE o = "+" -> "Plus" [] o = "-" -> "Minus" [] o = "*" -> "Multiply"
    [] o = "/" -> "Divide" [] o = "^" -> "Power"

\* the rank of an operator character: ^ above * and /, these above + and -
Rank(o) ==
  CASE o \in {"+", "-"} -> 1 [] o \in {"*", "/"} -> 2 [] o = "^" -> 3

IsLiteral(cs) == cs # <<>> /\ cs[1] # "-" /\ MatchesNumber(cs)

OperatorPositions(e) == {i \in 1 .. Len(e) : e[i] \in OperatorChars}
FirstOperator(e) ==
  CHOOSE i \in OperatorPositions(e) : \A j \in OperatorPositions(e) : i <= j
LastOperator(e) ==
  CHOOSE i \in OperatorPositions(e) : \A j \in OperatorPositions(e) : j <= i

\* e is a op1 b op2 c with number literals a, b, c and no parenthesis
IsChain(e) ==
  /\ Cardinality(OperatorPositions(e)) = 2
  /\ IsLiteral(SubSeq(e, 1, FirstOperator(e) - 1))
  /\ IsLiteral(SubSeq(e, FirstOperator(e) + 1, LastOperator(e) - 1))
  /\ IsLiteral(SubSeq(e, LastOperator(e) + 1, Len(e)))

ChainA(e) == ParseF64(SubSeq(e, 1, FirstOperator(e) - 1))
ChainB(e) == ParseF64(SubSeq(e, FirstOperator(e) + 1, LastOperator(e) - 1))
ChainC(e) == ParseF64(SubSeq(e, LastOperator(e) + 1, Len(e)))
ChainOp1(e) == e[FirstOperator(e)]
ChainOp2(e) == e[LastOperator(e)]

\* (a op1 b) op2 c and a op1 (b op2 c)
GroupedLeft(e) ==
  Arith(TypeOf(ChainOp2(e)),
        Arith(TypeOf(ChainOp1(e)), ChainA(e), ChainB(e)), ChainC(e))
GroupedRight(e) ==
  Arith(TypeOf(ChainOp1(e)), ChainA(e),
        Arith(TypeOf(ChainOp2(e)), ChainB(e), ChainC(e)))

\* C1: evaluate of a parenthesis-free a op1 b op2 c over number literals
\* returns a op1 (b op2 c) when op2 ranks strictly above op1 and
\* (a op1 b) op2 c when op1 ranks strictly above op2.
C1_Precedence ==
  (pc = "done" /\ IsChain(expression)) =>
     /\ Rank(ChainOp2(expression)) > Rank(ChainOp1(expression))
          => result = Ok(GroupedRight(expression))
     /\ Rank(ChainOp1(expression)) > Rank(ChainOp2(expression))
          => result = Ok(GroupedLeft(expression))

\* 2+3*4 has returned 14 (and not 20)
C1_Witness ==
  /\ pc = "done"
  /\ expression = <<"2", "+", "3", "*", "4">>
  /\ result = Ok(Fin(14, 1))

\* C2: evaluate of a parenthesis-free a op1 b op2 c whose operators have
\* equal rank returns (a op1 b) op2 c for + - * / and a ^ (b ^ c) for ^.
C2_Associativity ==
  (pc = "done" /\ IsChain(expression)
     /\ Rank(ChainOp1(expression)) = Rank(ChainOp2(expression))) =>
     IF ChainOp1(expression) = "^"
     THEN result = Ok(GroupedRight(expression))
     ELSE result = Ok(GroupedLeft(expression))

\* 2^2^3 has returned 256 (and not 64)
C2_Witness ==
  /\ pc = "done"
  /\ expression = <<"2", "^", "2", "^", "3">>
  /\ result = Ok(Fin(256, 1))

\* e is  literal op literal  or  literal op (e')  with e' of that form again
RECURSIVE IsOperation(_)
IsOperation(e) ==
  /\ OperatorPositions(e) # {}
  /\ LET p == FirstOperator(e)
         r == SubSeq(e, p + 1, Len(e))
     IN /\ IsLiteral(SubSeq(e, 1, p - 1))
        /\ \/ IsLiteral(r)
           \/ /\ Len(r) >= 2
              /\ r[1] = "("
              /\ r[Len(r)] = ")"
              /\ IsOperation(SubSeq(r, 2, Len(r) - 1))

\* its value, the group in parentheses computed before the operator in front
\* of it is applied
RECURSIVE OperationValue(_)
OperationValue(e) ==
  LET p == FirstOperator(e)
      r == SubSeq(e, p + 1, Len(e))
  IN Arith(TypeOf(e[p]), ParseF64(SubSeq(e, 1, p - 1)),
           IF IsLiteral(r) THEN ParseF64(r)
           ELSE OperationValue(SubSeq(r, 2, Len(r) - 1)))

\* e is such an operation with at least one pair of parentheses, round its
\* right operand or round the whole
IsWrapped(e) ==
  Len(e) >= 2 /\ e[1] = "(" /\ e[Len(e)] = ")"
    /\ IsOperation(SubSeq(e, 2, Len(e) - 1))
IsGrouped(e) ==
  \/ IsWrapped(e)
  \/ (IsOperation(e) /\ ~IsLiteral(SubSeq(e, FirstOperator(e) + 1, Len(e))))
GroupedValue(e) ==
  IF IsWrapped(e) THEN OperationValue(SubSeq(e, 2, Len(e) - 1))
  ELSE OperationValue(e)

IsNegative(x) ==
  IF x.k = "lit" THEN x.text[1] = "-" ELSE x.k \in {"fin", "zero", "inf"} /\ x.s = -1

\* tokenize is about to read a '-' that is followed by a digit
ReadsMinus ==
  /\ pc = "tokenize"
  /\ pos + 2 <= Len(expression)
  /\ expression[pos + 1] = "-"
  /\ expression[pos + 2] \in Digits

\* the step makes that '-' the first character of a number lexeme and no token
\* of its own
StartsNumber ==
  /\ pc' = "tokenize"
  /\ state' = "Number"
  /\ buffer' = <<"-">>
  /\ v' = IF buffer = <<>> THEN v ELSE Append(v, Token_new(buffer)[2])

\* a lexeme that begins with '-' and a digit never becomes a Minus token: the
\* token made of it is a Number of negative value
MakesNegativeNumber ==
  (pc = "tokenize" /\ Len(v') = Len(v) + 1
     /\ Len(buffer) >= 2 /\ buffer[1] = "-" /\ buffer[2] \in Digits) =>
     (v'[Len(v')].type = "Number" /\ IsNegative(v'[Len(v')].value))

\* e is [-]a op [-]b, or that in parentheses: the operator is the first
\* operator character that stands behind a digit or a dot
Unwrapped(e) ==
  IF Len(e) >= 2 /\ e[1] = "(" /\ e[Len(e)] = ")"
  THEN SubSeq(e, 2, Len(e) - 1) ELSE e
BinaryPositions(x) ==
  {i \in 2 .. Len(x) : x[i] \in OperatorChars /\ x[i - 1] \notin OperatorChars}
BinaryPosition(x) ==
  CHOOSE i \in BinaryPositions(x) : \A j \in BinaryPositions(x) : i <= j
SignedLeft(x) == SubSeq(x, 1, BinaryPosition(x) - 1)
SignedRight(x) == SubSeq(x, BinaryPosition(x) + 1, Len(x))
IsSigned(e) ==
  LET x == Unwrapped(e)
  IN /\ BinaryPositions(x) # {}
     /\ MatchesNumber(SignedLeft(x))
     /\ MatchesNumber(SignedRight(x))
     /\ (SignedLeft(x)[1] = "-" \/ SignedRight(x)[1] = "-")
SignedValue(cs) ==
  IF cs[1] = "-" THEN Neg(ParseF64(Tail(cs))) ELSE ParseF64(cs)
UnaryValue(e) ==
  LET x == Unwrapped(e)
  IN Arith(TypeOf(x[BinaryPosition(x)]), SignedValue(SignedLeft(x)),
           SignedValue(SignedRight(x)))
ReturnsUnaryValue ==
  (pc' = "done" /\ IsSigned(expression)) => result' = Ok(UnaryValue(expression))

\* C4 as stated: a '-' at the very start of the expression or immediately
\* after an operator character or '(', followed by a digit, becomes part of
\* one Number token of negative value and no Minus token, and evaluate of
\* a op -b returns a op (-b).
C4_AfterOperatorCharacter ==
  [][/\ (ReadsMinus /\ (pos = 0 \/ expression[pos] \in OperatorChars \cup {"("}))
          => StartsNumber
     /\ MakesNegativeNumber
     /\ ReturnsUnaryValue]_vars

\* C4 amended: the same for a '-' at the very start of the expression, after
\* '(', or after an operator character that tokenize has taken as an operator
\* (state OPERATOR), not as the sign that begins a number lexeme.
C4_UnaryMinus ==
  [][/\ (ReadsMinus /\ (pos = 0 \/ expression[pos] = "("
                         \/ (expression[pos] \in OperatorChars /\ state = "OPERATOR")))
          => StartsNumber
     /\ MakesNegativeNumber
     /\ ReturnsUnaryValue]_vars

\* 2^-2 has become the tokens 2, ^, -2 and has returned 0.25
C4_Witness ==
  /\ pc = "done"
  /\ expression = <<"2", "^", "-", "2">>
  /\ Len(v) = 3
  /\ v[3].type = "Number"
  /\ v[3].value = Fin(-2, 1)
  /\ result = Ok(Fin(1, 4))

\* tokenize is about to make a token of its buffer: in the loop, or at the end
\* of the text
MakesToken ==
  /\ pc = "tokenize"
  /\ \/ /\ pos < Len(expression)
        /\ ~is_alphabetic(expression[pos + 1])
        /\ lexer_branch(state, expression[pos + 1]).flush
     \/ /\ pos = Len(expression)
        /\ buffer # <<>>
        /\ state \in {"Number", "PARENTHESIS"}

\* C5: evaluate never aborts: every call returns a number or an error; when
\* the buffered lexeme matches no token grammar, the call returns the
\* invalid-lexeme error of Token::new.
C5_ErrorsAreValues ==
  [][/\ pc' # "panic"
     /\ pc' = "done" => (IsOk(result') \/ IsErr(result'))
     /\ (MakesToken /\ IsErr(Token_new(buffer)))
          => (pc' = "done" /\ result' = Token_new(buffer))]_vars

\* the number of '(' of e[i .. Len(e)] left open, after depth open ones
RECURSIVE OpenAtEnd(_, _, _)
OpenAtEnd(e, i, depth) ==
  IF i > Len(e) THEN depth
  ELSE IF e[i] = "(" THEN OpenAtEnd(e, i + 1, depth + 1)
  ELSE IF e[i] = ")" /\ depth > 0 THEN OpenAtEnd(e, i + 1, depth - 1)
  ELSE OpenAtEnd(e, i + 1, depth)

\* some ')' of e[i .. Len(e)] has no '(' before it to match, after depth open ones
RECURSIVE ClosesUnopened(_, _, _)
ClosesUnopened(e, i, depth) ==
  IF i > Len(e) THEN FALSE
  ELSE IF e[i] = "(" THEN ClosesUnopened(e, i + 1, depth + 1)
  ELSE IF e[i] = ")" THEN depth = 0 \/ ClosesUnopened(e, i + 1, depth - 1)
  ELSE ClosesUnopened(e, i + 1, depth)

\* C6: evaluate returns an error, never a number, for every expression in
\* which some '(' is never closed by a later ')'.
C6_UnmatchedOpening ==
  (pc = "done" /\ OpenAtEnd(expression, 1, 0) > 0) => IsErr(result)

\* C7: evaluate returns an error, never a number, for every expression that
\* contains a ')' with no matching earlier '(', wherever it stands.
C7_UnmatchedClosing ==
  (pc = "done" /\ ClosesUnopened(expression, 1, 0)) => IsErr(result)

\* C8: at the end of the scan tokenize fails with the unexpected-end error
\* exactly when its state is NONE (Start) or OPERATOR (AfterOperator); in
\* state Number or PARENTHESIS the buffer is not empty, becomes the last
\* token, and tokenize succeeds.
C8_EndOfInput ==
  [][(pc = "tokenize" /\ pos = Len(expression)) =>
       /\ state \in {"NONE", "OPERATOR"}
            <=> (pc' = "done" /\ result' = Err("Invalid end of expression", <<>>))
       /\ state \in {"Number", "PARENTHESIS"}
            => /\ buffer # <<>>
               /\ pc' = "shunting_yard"
               /\ Len(v') = Len(v) + 1]_vars

Letters_in(e) == {i \in 1 .. Len(e) : is_alphabetic(e[i])}
FirstLetter(e) ==
  e[CHOOSE i \in Letters_in(e) : \A j \in Letters_in(e) : i <= j]

\* C9: when the scan reaches an alphabetic character, in any state, tokenize
\* returns the invalid-character error naming it; so evaluate of a text with
\* an alphabetic character ends with that error.
C9_Alphabetic ==
  [][/\ (pc = "tokenize" /\ pos < Len(expression)
            /\ is_alphabetic(expression[pos + 1]))
          => (pc' = "done"
                /\ result' = Err("Invalid character: ", <<expression[pos + 1]>>))
     /\ (pc' \in {"done", "panic"} /\ Letters_in(expression) # {})
          => result' = Err("Invalid character: ", <<FirstLetter(expression)>>)]_vars

\* the postfix sequence rpn[i .. Len(rpn)], met with depth values on the
\* numeric stack, has an operator that finds fewer than two values
RECURSIVE LacksOperands(_, _, _)
LacksOperands(rpn, i, depth) ==
  IF i > Len(rpn) THEN FALSE
  ELSE IF rpn[i].type = "Number" THEN LacksOperands(rpn, i + 1, depth + 1)
  ELSE IF is_operator(rpn[i])
  THEN depth < 2 \/ LacksOperands(rpn, i + 1, depth - 1)
  ELSE LacksOperands(rpn, i + 1, depth)

\* C10: when calculate processes an operator with fewer than two values on
\* the numeric stack, the evaluation fails: evaluate returns no number for an
\* input whose postfix sequence has such an operator.
C10_InsufficientOperands ==
  [][(pc = "calculate" /\ pc' = "done"
        /\ LacksOperands(reverse_notation, 1, 0)) => IsErr(result')]_vars

\* calculate has processed every postfix token
AtEndOfPostfix == pc = "calculate" /\ ci = Len(reverse_notation)

\* C11: after all postfix tokens have been processed, calculate returns the
\* remaining value when the numeric stack holds exactly one value, and fails
\* with the malformed-expression error when it holds none or more than one;
\* so a call never returns a number from a stack of another size.
C11_FinalStack ==
  [][/\ (AtEndOfPostfix /\ Len(processing_numbers) = 1)
          => (pc' = "done" /\ result' = Ok(processing_numbers[1]))
     /\ (AtEndOfPostfix /\ Len(processing_numbers) # 1)
          => (pc' = "done" /\ result' = Err("Error parsing expresion", <<>>))
     /\ (pc' = "done" /\ IsOk(result'))
          => (AtEndOfPostfix /\ Len(processing_numbers) = 1)]_vars

\* 1(1) has left the two values 1, 1 on the numeric stack and has failed
C11_Witness ==
  /\ pc = "done"
  /\ expression = <<"1", "(", "1", ")">>
  /\ processing_numbers = <<Fin(1, 1), Fin(1, 1)>>
  /\ result = Err("Error parsing expresion", <<>>)

\* calculate, run on rpn[i .. Len(rpn)] with the numeric stack numbers, meets
\* a Divide whose right operand is a zero
RECURSIVE DividesByZero(_, _, _)
DividesByZero(rpn, i, numbers) ==
  IF i > Len(rpn) THEN FALSE
  ELSE \/ /\ rpn[i].type = "Divide"
          /\ Len(numbers) >= 2
          /\ numbers[Len(numbers)].k = "zero"
       \/ DividesByZero(rpn, i + 1, calculate_step(numbers, rpn[i]))

\* C12: evaluate of a well-formed expression (literals joined by binary
\* operators, groups in parentheses) in which a division has a zero divisor
\* returns a number, never an error; evaluate of 1/0 returns +infinity.
C12_DivisionByZero ==
  /\ (pc = "done" /\ expression \in DivisionTexts
        /\ DividesByZero(reverse_notation, 1, <<>>)) => IsOk(result)
  /\ (pc = "done" /\ expression = <<"1", "/", "0">>) => result = Ok(Inf(1))

\* the kinds of a token sequence
Kinds(ts) == [i \in 1 .. Len(ts) |-> ts[i].type]

KindOf(c) ==
  CASE c \in OperatorChars -> TypeOf(c)
    [] c = "(" -> "OpeningParenthesis"
    [] c = ")" -> "ClosingParaenthesis"

\* the index behind the maximal run of digits and '.' that begins at e[i]
RECURSIVE RunEnd(_, _)
RunEnd(e, i) ==
  IF i <= Len(e) /\ (e[i] \in Digits \/ e[i] = ".") THEN RunEnd(e, i + 1) ELSE i

HasDigit(e, i, j) == \E k \in i .. j - 1 : e[k] \in Digits

\* the lexemes of e[i .. Len(e)] from left to right, by kind: a maximal run of
\* digits and '.' with a digit in it is one Number, with the '-' before it folded in when that
\* '-' stands at the start of the text or behind an operator or '(' (before
\* is "start", "operator", "open", "close" or "number"); every other operator
\* or parenthesis character is one lexeme of its kind
RECURSIVE Lexemes(_, _, _)
Lexemes(e, i, before) ==
  IF i > Len(e) THEN <<>>
  ELSE IF e[i] \in Digits \/ (e[i] = "." /\ HasDigit(e, i, RunEnd(e, i)))
  THEN <<"Number">> \o Lexemes(e, RunEnd(e, i), "number")
  ELSE IF e[i] = "-" /\ before \in {"start", "operator", "open"}
          /\ i < Len(e) /\ e[i + 1] \in Digits
  THEN <<"Number">> \o Lexemes(e, RunEnd(e, i + 1), "number")
  ELSE IF e[i] \in OperatorChars
  THEN <<KindOf(e[i])>> \o Lexemes(e, i + 1, "operator")
  ELSE IF e[i] \in ParenChars
  THEN <<KindOf(e[i])>> \o Lexemes(e, i + 1, IF e[i] = "(" THEN "open" ELSE "close")
  ELSE Lexemes(e, i + 1, before)

\* C13: whenever tokenize succeeds, the kinds of its tokens are the lexemes of
\* the text from left to right: no operator, parenthesis or number of the text
\* is dropped, added, merged or reordered.
C13_LexerRoundTrip ==
  pc = "shunting_yard" => Kinds(v) = Lexemes(expression, 1, "start")

\* the table of the token kinds
PrecedenceOf(type) ==
  CASE type \in {"Plus", "Minus"} -> 2
    [] type \in {"Multiply", "Divide"} -> 3
    [] type = "Power" -> 4
    [] type \in {"Number", "OpeningParenthesis", "ClosingParaenthesis"} -> 0
AssociativityOf(type) ==
  CASE type \in {"Plus", "Minus", "Multiply", "Divide"} -> "Left"
    [] type = "Power" -> "Right"

InTable(t) ==
  /\ t.precedence = PrecedenceOf(t.type)
  /\ is_operator(t) => t.associativity = AssociativityOf(t.type)
  /\ t.type # "Number" => t.value = Zero(1)

AllInTable(ts) == \A i \in 1 .. Len(ts) : InTable(ts[i])

\* C14: every token that tokenize makes has the precedence and associativity
\* of its kind (Plus/Minus 2 Left, Multiply/Divide 3 Left, Power 4 Right,
\* Number and the parentheses 0), in the lexer's output, on the operator stack
\* and in the postfix sequence; its value is the parsed lexeme for a Number
\* and 0 otherwise.
C14_TokenTable ==
  [][/\ AllInTable(v') /\ AllInTable(stack') /\ AllInTable(reverse_notation')
     /\ (pc = "tokenize" /\ Len(v') = Len(v) + 1 /\ v'[Len(v')].type = "Number")
          => (MatchesNumber(buffer) /\ v'[Len(v')].value = ParseF64(buffer))]_vars

\* (2^-2) has become ( 2 ^ -2 ) with Power 4 Right and the Number of value -2
C14_Witness ==
  /\ pc = "done"
  /\ expression = <<"(", "2", "^", "-", "2", ")">>
  /\ v[1] = Token("OpeningParenthesis", Zero(1), 0, "Right")
  /\ v[3].type = "Power" /\ v[3].precedence = 4 /\ v[3].associativity = "Right"
  /\ v[4].type = "Number" /\ v[4].precedence = 0 /\ v[4].value = Fin(-2, 1)
  /\ v[5].type = "ClosingParaenthesis" /\ v[5].value = Zero(1)

\* the step is the entry of a call of evaluate that follows another call
CallsAgain == pc = "done" /\ pc' = "tokenize"

\* C15: in a sequence of calls of evaluate, a call returns what every earlier
\* call with the same text returned, the same number or the same error,
\* whatever calls were made in between; a call starts with the lexer in its
\* initial state, an empty buffer, no tokens and empty stacks.
C15_Deterministic ==
  [][/\ pc' = "done"
          => \A r \in returned' : r[1] = expression' => r[2] = result'
     /\ CallsAgain
          => /\ state' = "NONE" /\ buffer' = <<>> /\ v' = <<>>
             /\ stack' = <<>> /\ reverse_notation' = <<>>
             /\ processing_numbers' = <<>>]_vars

\* evaluate of 1 has returned 1 for the second time, after a call that left
\* the lexeme + in the buffer and a call that left two values on the stack
C15_Witness ==
  /\ pc = "done"
  /\ expression = <<"1">>
  /\ result = Ok(Fin(1, 1))
  /\ <<<<"1">>, Ok(Fin(1, 1))>> \in returned
  /\ <<<<"1", "+">>, Err("Invalid end of expression", <<>>)>> \in returned
  /\ <<<<"1", "(", "1", ")">>, Err("Error parsing expresion", <<>>)>> \in returned

\* e is (a op b)-c with number literals a, b, c
ClosePositions(e) == {i \in 1 .. Len(e) : e[i] = ")"}
ClosePosition(e) ==
  CHOOSE i \in ClosePositions(e) : \A j \in ClosePositions(e) : i <= j
Inner(e) == SubSeq(e, 2, ClosePosition(e) - 1)
IsGroupMinus(e) ==
  /\ Len(e) >= 7
  /\ e[1] = "("
  /\ ClosePositions(e) # {}
  /\ Cardinality(OperatorPositions(Inner(e))) = 1
  /\ IsLiteral(SubSeq(Inner(e), 1, FirstOperator(Inner(e)) - 1))
  /\ IsLiteral(SubSeq(Inner(e), FirstOperator(Inner(e)) + 1, Len(Inner(e))))
  /\ ClosePosition(e) < Len(e)
  /\ e[ClosePosition(e) + 1] = "-"
  /\ IsLiteral(SubSeq(e, ClosePosition(e) + 2, Len(e)))
GroupMinusValue(e) ==
  LET x == Inner(e)
      p == FirstOperator(x)
  IN Arith("Minus",
           Arith(TypeOf(x[p]), ParseF64(SubSeq(x, 1, p - 1)),
                 ParseF64(SubSeq(x, p + 1, Len(x)))),
           ParseF64(SubSeq(e, ClosePosition(e) + 2, Len(e))))

\* C16: a '-' that immediately follows ')' is not folded into the number
\* behind it: tokenize takes it as the operator Minus, and evaluate of
\* (a op b)-c returns (a op b) - c.
C16_MinusAfterClosing ==
  [][/\ (pc = "tokenize" /\ 1 <= pos /\ pos < Len(expression)
           /\ expression[pos] = ")" /\ expression[pos + 1] = "-")
          => (state' = "OPERATOR" /\ buffer' = <<"-">>)
     /\ (pc' = "done" /\ IsGroupMinus(expression))
          => result' = Ok(GroupMinusValue(expression))]_vars

\* tokenize, in one of the states sts, is about to read an operator character
\* other than '-', or a parenthesis
ReadsLexemeStart(sts) ==
  /\ pc = "tokenize"
  /\ pos < Len(expression)
  /\ state \in sts
  /\ expression[pos + 1] \in (OperatorChars \ {"-"}) \cup ParenChars

\* the step makes the buffered lexeme a token and begins a lexeme of the class
\* of the character read
StartsLexeme ==
  /\ pc' = "tokenize"
  /\ v' = Append(v, Token_new(buffer)[2])
  /\ buffer' = <<expression[pos + 1]>>
  /\ state' = IF expression[pos + 1] \in OperatorChars
              THEN "OPERATOR" ELSE "PARENTHESIS"

\* C17: in state OPERATOR as well as in state PARENTHESIS an operator
\* character (other than '-') or a parenthesis closes the current lexeme as a
\* token and starts a new lexeme of its own class; no operator character is
\* discarded: 1+*1 yields the tokens 1, +, *, 1.
C17_LexemeStart ==
  [][/\ ReadsLexemeStart({"OPERATOR", "PARENTHESIS"}) => StartsLexeme
     /\ (pc' = "shunting_yard" /\ expression = <<"1", "+", "*", "1">>)
          => Kinds(v') = <<"Number", "Plus", "Multiply", "Number">>]_vars

\* e is a op b with number literals a and b
IsBinary(e) ==
  /\ Cardinality(OperatorPositions(e)) = 1
  /\ IsLiteral(SubSeq(e, 1, FirstOperator(e) - 1))
  /\ IsLiteral(SubSeq(e, FirstOperator(e) + 1, Len(e)))
BinaryLeft(e) == ParseF64(SubSeq(e, 1, FirstOperator(e) - 1))
BinaryRight(e) == ParseF64(SubSeq(e, FirstOperator(e) + 1, Len(e)))

\* C18: for an operator calculate takes the value on top of the numeric stack
\* as the right operand and the one below it as the left operand and pushes
\* left op right; so evaluate of a op b returns a op b, never b op a:
\* 2-5 = -3, 6/2 = 3, 6^2 = 36.
C18_OperandOrder ==
  [][/\ (pc = "calculate" /\ ci < Len(reverse_notation)
           /\ is_operator(reverse_notation[ci + 1])
           /\ Len(processing_numbers) >= 2)
          => LET n == Len(processing_numbers)
                 r_operand == processing_numbers[n]
                 l_operand == processing_numbers[n - 1]
             IN processing_numbers' =
                  Append(SubSeq(processing_numbers, 1, n - 2),
                         Arith(reverse_notation[ci + 1].type, l_operand, r_operand))
     /\ (pc' = "done" /\ IsBinary(expression))
          => result' = Ok(Arith(TypeOf(expression[FirstOperator(expression)]),
                                BinaryLeft(expression), BinaryRight(expression)))
     /\ (pc' = "done" /\ expression = <<"2", "-", "5">>) => result' = Ok(Fin(-3, 1))
     /\ (pc' = "done" /\ expression = <<"6", "/", "2">>) => result' = Ok(Fin(3, 1))
     /\ (pc' = "done" /\ expression = <<"6", "^", "2">>) => result' = Ok(Fin(36, 1))]_vars

\* 2-5 has returned -3 (and not 3)
C18_Witness ==
  /\ pc = "done"
  /\ expression = <<"2", "-", "5">>
  /\ processing_numbers = <<Fin(-3, 1)>>
  /\ result = Ok(Fin(-3, 1))

\* the steps from one stage of evaluate to another
StageOrder ==
  {<<"tokenize", "shunting_yard">>, <<"shunting_yard", "calculate">>,
   <<"calculate", "done">>, <<"tokenize", "done">>, <<"shunting_yard", "done">>}

\* tokenize is about to fail: on an alphabetic character, on a lexeme that is
\* no token, or at the end of the text
LexerFails ==
  /\ pc = "tokenize"
  /\ \/ pos < Len(expression) /\ is_alphabetic(expression[pos + 1])
     \/ MakesToken /\ IsErr(Token_new(buffer))
     \/ pos = Len(expression) /\ ~(buffer # <<>> /\ state \in {"Number", "PARENTHESIS"})

\* the error of that failure
LexerError ==
  IF pos < Len(expression) /\ is_alphabetic(expression[pos + 1])
  THEN Err("Invalid character: ", <<expression[pos + 1]>>)
  ELSE IF MakesToken /\ IsErr(Token_new(buffer)) THEN Token_new(buffer)
  ELSE Err("Invalid end of expression", <<>>)

\* C19: evaluate runs tokenize, shunting_yard and calculate in that order,
\* each at most once, and stops at the first of them that fails, returning
\* its error unchanged: the converter and the evaluator do nothing before
\* their turn nor after an earlier stage has failed; a text with an alphabetic
\* character and an unmatched ')' reports the invalid character.
C19_PipelineOrder ==
  [][/\ pc' # pc => <<pc, pc'>> \in StageOrder
     /\ LexerFails => (pc' = "done" /\ result' = LexerError)
     /\ pc = "tokenize"
          => (ti' = 0 /\ stack' = <<>> /\ reverse_notation' = <<>>)
     /\ pc \in {"tokenize", "shunting_yard"}
          => (ci' = 0 /\ processing_numbers' = <<>>)
     /\ (pc = "shunting_yard" /\ pc' = "done")
          => result' = Err("Expected opening bracket", <<>>)
     /\ (pc' \in {"done", "panic"} /\ Letters_in(expression) # {}
           /\ ClosesUnopened(expression, 1, 0))
          => result' = Err("Invalid character: ", <<FirstLetter(expression)>>)]_vars

\* the characters that have a transition in a lexer state
Transitions(st) ==
  CASE st = "NONE" -> Digits \cup {"-", "("}
    [] st = "Number" -> Digits \cup {"."} \cup OperatorChars \cup ParenChars
    [] st = "OPERATOR" -> Digits \cup {"-"} \cup ParenChars
    [] st = "PARENTHESIS" -> Digits \cup OperatorChars \cup ParenChars

\* tokenize is about to read a character that is not alphabetic and has no
\* transition in the current state
ReadsUnmatched ==
  /\ pc = "tokenize"
  /\ pos < Len(expression)
  /\ ~is_alphabetic(expression[pos + 1])
  /\ expression[pos + 1] \notin Transitions(state)

\* C20: a character that is not alphabetic and matches no transition of the
\* current lexer state (a space in any state, an operator other than '-' in
\* state NONE) is skipped: the state, the buffer and the tokens made so far
\* stay as they are, no error is raised and the scan goes on with the next
\* character.
C20_SilentDrop ==
  [][/\ ReadsUnmatched
          => /\ UNCHANGED <<state, buffer, v, result>>
             /\ pc' = "tokenize"
             /\ pos' = pos + 1
     /\ (pc = "tokenize" /\ pos < Len(expression) /\ expression[pos + 1] = " ")
          => ReadsUnmatched
     /\ (pc = "tokenize" /\ pos < Len(expression) /\ state = "NONE"
           /\ expression[pos + 1] \in OperatorChars \ {"-"})
          => ReadsUnmatched]_vars

\* in "+1 +1" the '+' read in state NONE and the space read in state Number
\* have been skipped: the tokens are 1, +, 1 and the call has returned 2
C20_Witness ==
  /\ pc = "done"
  /\ expression = <<"+", "1", " ", "+", "1">>
  /\ Kinds(v) = <<"Number", "Plus", "Number">>
  /\ result = Ok(Fin(2, 1))

\* an operator on the stack that goes to the output before the operator o1
GoesBefore(top, o1) ==
  /\ is_operator(top)
  /\ \/ top.precedence > o1.precedence
     \/ top.precedence = o1.precedence /\ top.associativity = "Left"

\* the length of the maximal run of such operators at the top of the stack
RECURSIVE RunLength(_, _)
RunLength(st, o1) ==
  IF st # <<>> /\ GoesBefore(Top(st), o1) THEN 1 + RunLength(Pop(st), o1) ELSE 0

\* the k topmost entries of the stack in pop order
PopOrder(st, k) == [i \in 1 .. k |-> st[Len(st) + 1 - i]]

\* shunting_yard is about to process a token of one of the kinds
Converts(kinds) ==
  pc = "shunting_yard" /\ ti < Len(v) /\ v[ti + 1].type \in kinds

\* C21: when shunting_yard processes an operator o1 it moves to the output the
\* maximal run of operators at the top of the stack whose precedence is greater
\* than o1's, or equal with Left associativity, in pop order, and then pushes
\* o1; an OpeningParenthesis on top of the stack is not popped.
C21_OperatorRule ==
  [][Converts({"Plus", "Minus", "Multiply", "Divide", "Power"})
       => LET o1 == v[ti + 1]
              k == RunLength(stack, o1)
          IN /\ stack' = Append(SubSeq(stack, 1, Len(stack) - k), o1)
             /\ reverse_notation' = reverse_notation \o PopOrder(stack, k)
             /\ (stack # <<>> /\ Top(stack).type = "OpeningParenthesis")
                  => (stack' = Append(stack, o1) /\ UNCHANGED reverse_notation)
             /\ pc' = "shunting_yard"]_vars

\* in 2+3*2-3 the '-' has moved the run *, + to the output and is on the stack
C21_Witness ==
  /\ pc = "shunting_yard"
  /\ expression = <<"2", "+", "3", "*", "2", "-", "3">>
  /\ ti = 6
  /\ Kinds(stack) = <<"Minus">>
  /\ Kinds(reverse_notation) = <<"Number", "Number", "Number", "Multiply", "Plus">>

\* the places of the OpeningParenthesis tokens on the stack
Openings(st) == {i \in 1 .. Len(st) : st[i].type = "OpeningParenthesis"}
TopOpening(st) == CHOOSE i \in Openings(st) : \A j \in Openings(st) : j <= i

\* C22: when shunting_yard processes a ClosingParaenthesis it moves the
\* operators above the topmost OpeningParenthesis from the stack to the
\* output, in pop order, and removes that OpeningParenthesis without
\* outputting it; when the stack holds no OpeningParenthesis the conversion
\* fails at that token with the expected-opening-bracket error, and no
\* postfix sequence reaches calculate.
C22_ClosingRule ==
  [][Converts({"ClosingParaenthesis"})
       => IF Openings(stack) # {}
          THEN LET k == Len(stack) - TopOpening(stack)
               IN /\ \A i \in 1 .. k : is_operator(PopOrder(stack, k)[i])
                  /\ reverse_notation' = reverse_notation \o PopOrder(stack, k)
                  /\ stack' = SubSeq(stack, 1, TopOpening(stack) - 1)
                  /\ pc' = "shunting_yard"
                  /\ result' = None
          ELSE /\ pc' = "done"
               /\ result' = Err("Expected opening bracket", <<>>)
               /\ ti' = ti + 1
               /\ ci' = 0
               /\ processing_numbers' = <<>>]_vars

\* in (1)1) the first ')' has removed the '(' and the second one, with no '('
\* on the stack, has failed the conversion at the fifth token
C22_Witness ==
  /\ pc = "done"
  /\ expression = <<"(", "1", ")", "1", ")">>
  /\ ti = 5
  /\ stack = <<>>
  /\ Kinds(reverse_notation) = <<"Number", "Number">>
  /\ result = Err("Expected opening bracket", <<>>)

IsParenthesis(t) == t.type \in {"OpeningParenthesis", "ClosingParaenthesis"}
IsNumber(t) == t.type = "Number"

\* how often the token x stands in the sequence ts
Count(ts, x) == Cardinality({i \in 1 .. Len(ts) : ts[i] = x})

\* the number of OpeningParenthesis tokens of ts[i .. Len(ts)] left open,
\* after depth open ones
RECURSIVE OpenTokens(_, _, _)
OpenTokens(ts, i, depth) ==
  IF i > Len(ts) THEN depth
  ELSE IF ts[i].type = "OpeningParenthesis" THEN OpenTokens(ts, i + 1, depth + 1)
  ELSE IF ts[i].type = "ClosingParaenthesis" /\ depth > 0
  THEN OpenTokens(ts, i + 1, depth - 1)
  ELSE OpenTokens(ts, i + 1, depth)

\* the tokens shunting_yard has read
Read == SubSeq(v, 1, ti)

\* output and stack together hold each token that is no parenthesis as often
\* as it has been read, and as many OpeningParenthesis tokens as are open
HoldsWhatWasRead ==
  LET held == reverse_notation \o stack
  IN /\ \A i \in 1 .. Len(held) :
          \/ ~IsParenthesis(held[i])
          \/ held[i].type = "OpeningParenthesis"
     /\ Cardinality({i \in 1 .. Len(held) : IsParenthesis(held[i])})
          = OpenTokens(Read, 1, 0)
     /\ \A i \in 1 .. Len(Read) :
          ~IsParenthesis(Read[i]) => Count(held, Read[i]) = Count(Read, Read[i])
     /\ \A i \in 1 .. Len(held) :
          ~IsParenthesis(held[i]) => Count(Read, held[i]) = Count(held, held[i])

\* the postfix sequence is the tokens of v without the parentheses, reordered,
\* the Number tokens in the order they have in v
IsReordering ==
  /\ \A i \in 1 .. Len(reverse_notation) : ~IsParenthesis(reverse_notation[i])
  /\ Len(reverse_notation) = Cardinality({i \in 1 .. Len(v) : ~IsParenthesis(v[i])})
  /\ \A i \in 1 .. Len(v) :
       ~IsParenthesis(v[i]) => Count(reverse_notation, v[i]) = Count(v, v[i])
  /\ SelectSeq(reverse_notation, IsNumber) = SelectSeq(v, IsNumber)

\* C23: whenever shunting_yard succeeds on tokens in which every '(' is
\* closed, its output has no parenthesis and is a permutation of the Number
\* and operator tokens of its input with the Number tokens in input order;
\* after any prefix of the input, output and operator stack hold exactly the
\* non-parenthesis tokens read so far and the '(' tokens still open.
C23_Reordering ==
  /\ pc = "shunting_yard" => HoldsWhatWasRead
  /\ (pc = "calculate" /\ OpenTokens(v, 1, 0) = 0) => IsReordering

\* 2*(3+2-3) has been converted to 2 3 2 + 3 - *
C23_Witness ==
  /\ pc = "calculate"
  /\ ci = 0
  /\ expression = <<"2", "*", "(", "3", "+", "2", "-", "3", ")">>
  /\ Len(v) = 9
  /\ reverse_notation = <<v[1], v[4], v[6], v[5], v[8], v[7], v[2]>>

\* the entry upper may lie directly on the entry lower of the operator stack
MayLieOn(upper, lower) ==
  (is_operator(upper) /\ is_operator(lower))
    => \/ upper.precedence > lower.precedence
       \/ upper.precedence = lower.precedence /\ lower.associativity = "Right"

\* C24: at every step of shunting_yard the operator stack holds only operator
\* and OpeningParenthesis tokens, and of two operators that lie directly on
\* each other the upper one has strictly higher precedence than the lower one,
\* or equal precedence with a Right-associative lower one.
C24_StackInvariant ==
  /\ \A i \in 1 .. Len(stack) :
       is_operator(stack[i]) \/ stack[i].type = "OpeningParenthesis"
  /\ \A i \in 1 .. Len(stack) - 1 : MayLieOn(stack[i + 1], stack[i])

\* in 2+3^2^3 the stack has grown to +, ^, ^
C24_Witness ==
  /\ pc = "shunting_yard"
  /\ expression = <<"2", "+", "3", "^", "2", "^", "3">>
  /\ ti = 6
  /\ Kinds(stack) = <<"Plus", "Power", "Power">>

\* C25: after every character of the scan the buffer is empty exactly when the
\* state is NONE, holds exactly one operator character in state OPERATOR,
\* exactly one parenthesis character in state PARENTHESIS, and a '-' or a
\* digit followed by digits and dots in state Number; so making a token of an
\* operator or parenthesis lexeme never fails, and a tokenize that succeeds
\* returns at least one token.
C25_BufferInvariant ==
  /\ buffer = <<>> <=> state = "NONE"
  /\ state = "OPERATOR" => (Len(buffer) = 1 /\ buffer[1] \in OperatorChars)
  /\ state = "PARENTHESIS" => (Len(buffer) = 1 /\ buffer[1] \in ParenChars)
  /\ state = "Number"
       => /\ buffer # <<>>
          /\ buffer[1] \in Digits \cup {"-"}
          /\ \A i \in 2 .. Len(buffer) : buffer[i] \in Digits \cup {"."}
  /\ state \in {"OPERATOR", "PARENTHESIS"} => IsOk(Token_new(buffer))
  /\ pc = "panic" => state = "Number"
  /\ pc \in {"shunting_yard", "calculate"} => Len(v) >= 1
  /\ IsOk(result) => Len(v) >= 1

\* in "(-1.+" the scan has read four characters: the buffer holds the number
\* lexeme -1. and the '(' has become a token
C25_Witness ==
  /\ pc = "tokenize"
  /\ expression = <<"(", "-", "1", ".", "+">>
  /\ pos = 4
  /\ state = "Number"
  /\ buffer = <<"-", "1", ".">>
  /\ Kinds(v) = <<"OpeningParenthesis">>

====
